---- MODULE Spec2Model ----
(***************************************************************************)
(* JournalInsightAI: the similarity index (faiss_index.py, simple_faiss.py)*)
(* and the journal image ingest pipeline (ingest_journal_images.py, db.py, *)
(* embedding.py) as state machines.                                        *)
(*                                                                         *)
(* Texts are sequences of one-character strings.  Python positions are     *)
(* 0-based, the sequences here are 1-based: FAISS position p is p + 1.     *)
(***************************************************************************)
EXTENDS Integers, Sequences, FiniteSets, TLC

VARIABLES
    index,          \* self.index: the vectors of the faiss.IndexFlatIP, in insertion order
    metadata,       \* self.metadata: list of metadata dicts
    index_file,     \* content of the file at self.index_path, or NoFile
    metadata_file,  \* content of the file at self.metadata_path, or NoFile
    history,        \* observer of the call sequence: "inserts", "removed" or "other", with a count
    removed,        \* observer: the (id, type) pairs removed and not inserted again since
    db,             \* the journal_entries table: the committed rows, in id order
    mem,            \* per process, its SimpleFAISSIndex instance (vectors and metadata)
    proc,           \* per process, the state of its ingest run
    runs,           \* number of ingest runs started
    ingested,       \* observer: the images for which process_journal_image returned created entries
    call            \* a call of a text function: its name, its argument and what it returned

idxvars == <<index, metadata, history, removed>>
filevars == <<index_file, metadata_file>>
ingvars == <<db, mem, proc, runs, ingested>>
vars == <<idxvars, filevars, ingvars, call>>

(***************************************************************************)
(* Bounds of the model.                                                    *)
(***************************************************************************)
MaxEntries == 2     \* add_entry is offered while the metadata holds fewer entries
MaxId == 2          \* record ids are 1..MaxId
MaxK == 2           \* search is called with k in 1..MaxK

(***************************************************************************)
(* Text helpers (Python str methods).                                      *)
(***************************************************************************)
SP == " "
NL == "\n"
CR == "\r"
Whitespace == {SP, NL, CR}

RECURSIVE LStrip(_)
LStrip(s) == IF s # <<>> /\ Head(s) \in Whitespace THEN LStrip(Tail(s)) ELSE s

RECURSIVE RStrip(_)
RStrip(s) ==
    IF s # <<>> /\ s[Len(s)] \in Whitespace THEN RStrip(SubSeq(s, 1, Len(s) - 1)) ELSE s

\* str.strip()
Strip(s) == RStrip(LStrip(s))

\* str.replace(c, r) for a one-character c and a replacement string r
RECURSIVE Replace(_, _, _)
Replace(s, c, r) ==
    IF s = <<>> THEN <<>>
    ELSE (IF Head(s) = c THEN r ELSE <<Head(s)>>) \o Replace(Tail(s), c, r)

(***************************************************************************)
(* Embedding provider (embedding.py).                                      *)
(***************************************************************************)
\* The text sent to the provider: text.strip().replace("\n", " ")
CleanForEmbedding(text) == Replace(Strip(text), NL, <<SP>>)

Count(s, c) == Cardinality({i \in 1..Len(s) : s[i] = c})

\* client.embeddings.create: the provider, a deterministic function of its input
\* (here of the characters the input holds)
EmbeddingModel(cleaned) ==
    <<3 * Count(cleaned, "a") + 4 * Count(cleaned, "b") + 3 * Count(cleaned, "A"),
      4 * Count(cleaned, "a") + 3 * Count(cleaned, "b") + 5 * Count(cleaned, "A"),
      1 + Count(cleaned, "D1") + 2 * Count(cleaned, "D2")>>

\* embed(text), when the provider answers
embed(text) == EmbeddingModel(CleanForEmbedding(text))

(***************************************************************************)
(* Vectors.  v / np.linalg.norm(v) is kept exactly, as the pair of v and   *)
(* its squared norm; an inner product of two such vectors is the rational  *)
(* dot / sqrt(n2a * n2b), compared without rounding.                       *)
(***************************************************************************)
RECURSIVE Dot(_, _)
Dot(u, v) == IF u = <<>> THEN 0 ELSE Head(u) * Head(v) + Dot(Tail(u), Tail(v))

Normalize(v) == [v |-> v, n2 |-> Dot(v, v)]

\* inner product of a stored unit vector x with the unit query q
InnerProduct(x, q) == [dot |-> Dot(x.v, q.v), n2 |-> x.n2 * q.n2]

\* s >= t for scores s, t (dot / sqrt(n2))
ScoreGeq(s, t) ==
    IF s.dot >= 0 /\ t.dot >= 0 THEN s.dot * s.dot * t.n2 >= t.dot * t.dot * s.n2
    ELSE IF s.dot >= 0 THEN TRUE
    ELSE IF t.dot >= 0 THEN FALSE
    ELSE s.dot * s.dot * t.n2 <= t.dot * t.dot * s.n2

\* the score is 1.0
ScoreIsOne(s) == s.dot > 0 /\ s.dot * s.dot = s.n2

(***************************************************************************)
(* FAISSIndex (faiss_index.py).  A value `self` is the record of the       *)
(* index object's vectors and metadata and of the two files it persists to.*)
(***************************************************************************)
NoFile == "absent"
dimension == 1536
PreviewLen == 200

Types == {"journal", "influence"}
Ids == 1..MaxId
Texts == {<<"a">>, <<"b">>, <<SP, "a">>}
NoMetadata == {}
ExtraMetadata == {NoMetadata, {<<"source", "scan">>}}
SaveOutcomes == {"ok", "index_write_fails", "metadata_write_fails"}

Self == [index |-> index, metadata |-> metadata,
         index_file |-> index_file, metadata_file |-> metadata_file]

EmptyIndex == [index |-> <<>>, metadata |-> <<>>,
               index_file |-> NoFile, metadata_file |-> NoFile]

\* load_index: each file is read when it exists, independently of the other
load_index(files) ==
    [index |-> IF files.index_file # NoFile THEN files.index_file ELSE <<>>,
     metadata |-> IF files.metadata_file # NoFile THEN files.metadata_file ELSE <<>>]

\* save_index: faiss.write_index, then pickle.dump; an exception is printed and dropped
save_index(self, io) ==
    CASE io = "ok" ->
            [self EXCEPT !.index_file = self.index, !.metadata_file = self.metadata]
      [] io = "index_write_fails" -> self
      [] io = "metadata_write_fails" -> [self EXCEPT !.index_file = self.index]

\* text[:200] + "..." if len(text) > 200 else text
text_preview(text) ==
    IF Len(text) > PreviewLen THEN SubSeq(text, 1, PreviewLen) \o <<".", ".", ".">> ELSE text

\* add_entry as it would be if it appended the metadata entry before embedding the text
add_entry_metadata_first(self, text, entry_id, entry_type, additional_metadata, embedOk, io) ==
    LET metadata_entry == [id |-> entry_id, type |-> entry_type,
                           text_preview |-> text_preview(text),
                           extra |-> additional_metadata]
        noted == [self EXCEPT !.metadata = Append(self.metadata, metadata_entry)]
    IN IF ~embedOk THEN [self |-> noted, raised |-> TRUE]
       ELSE [self |-> save_index([noted EXCEPT
                                    !.index = Append(self.index, Normalize(embed(text)))], io),
             raised |-> FALSE]

\* add_entry: [self |-> the index afterwards, raised |-> whether the call raised]
add_entry(self, text, entry_id, entry_type, additional_metadata, embedOk, io) ==
    IF ~embedOk THEN [self |-> self, raised |-> TRUE]
    ELSE LET embedding == Normalize(embed(text))
             metadata_entry == [id |-> entry_id, type |-> entry_type,
                                text_preview |-> text_preview(text),
                                extra |-> additional_metadata]
             added == [self EXCEPT !.index = Append(self.index, embedding),
                                   !.metadata = Append(self.metadata, metadata_entry)]
         IN [self |-> save_index(added, io), raised |-> FALSE]

\* _rebuild_index: a new, empty IndexFlatIP replaces the index; the loop over the
\* metadata adds nothing to it
_rebuild_index(self, io) == save_index([self EXCEPT !.index = <<>>], io)

\* the loop of _rebuild_index as it would be if it embedded each entry's text again
rebuild_embed_calls_reembeds(self) ==
    [i \in 1..Len(self.metadata) |-> self.metadata[i].text_preview]

\* the texts _rebuild_index passes to embed, in order: its loop over the metadata is
\* `pass`, and neither save_index nor the list comprehension of remove_entry embeds
rebuild_embed_calls(self) == <<>>

Matches(meta, entry_id, entry_type) == meta.id = entry_id /\ meta.type = entry_type

\* position of the first metadata entry matching (id, type), 0 when there is none
FirstMatch(md, entry_id, entry_type) ==
    IF \E i \in 1..Len(md) : Matches(md[i], entry_id, entry_type)
    THEN CHOOSE i \in 1..Len(md) :
            /\ Matches(md[i], entry_id, entry_type)
            /\ \A j \in 1..(i - 1) : ~Matches(md[j], entry_id, entry_type)
    ELSE 0

\* self.metadata.pop(i)
Pop(md, i) == SubSeq(md, 1, i - 1) \o SubSeq(md, i + 1, Len(md))

\* remove_entry as it would be if it dropped only the first matching entry
remove_entry_first_match_only(self, entry_id, entry_type, io) ==
    LET i == FirstMatch(self.metadata, entry_id, entry_type)
    IN IF i = 0 THEN self
       ELSE _rebuild_index([self EXCEPT !.metadata = Pop(self.metadata, i)], io)

\* remove_entry as it would be if it rebuilt the index whether or not an entry matched
remove_entry_always_rebuilds(self, entry_id, entry_type, io) ==
    _rebuild_index([self EXCEPT !.metadata =
        SelectSeq(self.metadata, LAMBDA meta: ~Matches(meta, entry_id, entry_type))], io)

\* remove_entry
remove_entry(self, entry_id, entry_type, io) ==
    LET kept == SelectSeq(self.metadata, LAMBDA meta: ~Matches(meta, entry_id, entry_type))
    IN IF Len(kept) < Len(self.metadata)
       THEN _rebuild_index([self EXCEPT !.metadata = kept], io)
       ELSE self

\* the texts remove_entry passes to embed
remove_embed_calls(self, entry_id, entry_type) ==
    LET kept == SelectSeq(self.metadata, LAMBDA meta: ~Matches(meta, entry_id, entry_type))
    IN IF Len(kept) < Len(self.metadata)
       THEN rebuild_embed_calls([self EXCEPT !.metadata = kept])
       ELSE <<>>

\* update_entry: pops the first match, rebuilds if there was one, then add_entry
update_entry(self, entry_id, new_text, entry_type, embedOk, io1, io2) ==
    LET i == FirstMatch(self.metadata, entry_id, entry_type)
        rebuilt == IF i = 0 THEN self
                   ELSE _rebuild_index([self EXCEPT !.metadata = Pop(self.metadata, i)], io1)
        additional_metadata == IF i = 0 THEN NoMetadata ELSE self.metadata[i].extra
    IN add_entry(rebuilt, new_text, entry_id, entry_type, additional_metadata, embedOk, io2)

NoType == "none"     \* entry_type=None
OverFetch == 3       \* search_k = min(k * 3, ntotal)

Min(a, b) == IF a <= b THEN a ELSE b

\* self.index.search(query, n): positions of n nearest vectors by inner product, best
\* first.  FAISS leaves the order among equal scores open: every order is an answer.
TopOrders(vectors, q, n) ==
    LET L == Len(vectors)
        score == [p \in 1..L |-> InnerProduct(vectors[p], q)]
        geq == [a \in 1..L |-> [b \in 1..L |-> ScoreGeq(score[a], score[b])]]
    IN { o \in [1..n -> 1..L] :
           /\ \A i, j \in 1..n : i < j => o[i] # o[j] /\ geq[o[i]][o[j]]
           /\ \A p \in 1..L : (\A i \in 1..n : o[i] # p) => geq[o[n]][p] }

\* a type filter that lets every entry through
FilteredOut_never(meta, entry_type) == FALSE

\* `if entry_type and metadata["type"] != entry_type: continue`
FilteredOut(meta, entry_type) == entry_type # NoType /\ meta.type # entry_type

\* the loop of search as it would be without `if len(results) >= k: break`
RECURSIVE Collect_no_limit(_, _, _, _, _, _, _)
Collect_no_limit(self, q, order, i, k, entry_type, results) ==
    IF i > Len(order) THEN [raised |-> FALSE, results |-> results]
    ELSE LET idx == order[i]
         IN IF idx > Len(self.metadata) THEN [raised |-> TRUE, results |-> results]
            ELSE LET meta == self.metadata[idx]
                     hit == [id |-> meta.id, score |-> InnerProduct(self.index[idx], q),
                             metadata |-> meta]
                 IN Collect_no_limit(self, q, order, i + 1, k, entry_type,
                                     IF FilteredOut(meta, entry_type) THEN results
                                     ELSE Append(results, hit))

\* the loop of search over zip(scores[0], indices[0]); [raised, results]
RECURSIVE Collect(_, _, _, _, _, _, _)
Collect(self, q, order, i, k, entry_type, results) ==
    IF i > Len(order) THEN [raised |-> FALSE, results |-> results]
    ELSE LET idx == order[i]
         IN IF idx > Len(self.metadata) THEN [raised |-> TRUE, results |-> results]
            ELSE LET meta == self.metadata[idx]
                     hit == [id |-> meta.id, score |-> InnerProduct(self.index[idx], q),
                             metadata |-> meta]
                 IN IF FilteredOut(meta, entry_type)
                    THEN Collect(self, q, order, i + 1, k, entry_type, results)
                    ELSE IF Len(results) + 1 >= k
                         THEN [raised |-> FALSE, results |-> Append(results, hit)]
                         ELSE Collect(self, q, order, i + 1, k, entry_type,
                                      Append(results, hit))

\* search as it would be if it embedded the query before looking at ntotal
search_embeds_query_always(self) == TRUE

\* whether search goes on to embed(query_text): `if ... ntotal == 0: return []` comes
\* first, in both index classes
search_embeds_query(self) == Len(self.index) # 0

\* search with over-fetch factor f: the set of lists the call can return
SearchWith(self, query_text, k, entry_type, embedOk, f) ==
    IF ~search_embeds_query(self) THEN {<<>>}
    ELSE IF ~embedOk THEN {<<>>}
    ELSE LET q == Normalize(embed(query_text))
             search_k == Min(k * f, Len(self.index))
         IN { LET c == Collect(self, q, o, 1, k, entry_type, <<>>)
              IN IF c.raised THEN <<>> ELSE c.results :
              o \in TopOrders(self.index, q, search_k) }

\* FAISSIndex.search
search(self, query_text, k, entry_type, embedOk) ==
    SearchWith(self, query_text, k, entry_type, embedOk, OverFetch)

CountType(md, t) == Cardinality({i \in 1..Len(md) : md[i].type = t})

\* get_stats as it would be if it counted the metadata entries for total_entries
get_stats_counts_metadata(self) ==
    [total_entries |-> Len(self.metadata),
     journal_entries |-> CountType(self.metadata, "journal"),
     influence_entries |-> CountType(self.metadata, "influence"),
     dimension |-> dimension]

\* get_stats
get_stats(self) ==
    [total_entries |-> Len(self.index),
     journal_entries |-> CountType(self.metadata, "journal"),
     influence_entries |-> CountType(self.metadata, "influence"),
     dimension |-> dimension]

(***************************************************************************)
(* The calls on a FAISSIndex as actions.  search and get_stats change no   *)
(* state: they are the operators above, applied to the current state.  The *)
(* disk is writable in SpecIndex: every save_index succeeds.               *)
(***************************************************************************)
Install(self) ==
    /\ index' = self.index
    /\ metadata' = self.metadata
    /\ index_file' = self.index_file
    /\ metadata_file' = self.metadata_file

HasKey(md, id, type) == \E i \in 1..Len(md) : Matches(md[i], id, type)

AddEntry ==
    \E text \in Texts, id \in Ids, type \in Types, extra \in ExtraMetadata,
       embedOk \in BOOLEAN :
        /\ Len(metadata) < MaxEntries
        /\ LET r == add_entry(Self, text, id, type, extra, embedOk, "ok")
           IN /\ Install(r.self)
              /\ history' = IF ~r.raised /\ history.phase = "inserts"
                                /\ ~HasKey(metadata, id, type)
                            THEN [phase |-> "inserts", n |-> history.n + 1]
                            ELSE IF r.raised THEN history
                            ELSE [phase |-> "other", n |-> 0]
              /\ removed' = IF r.raised THEN removed ELSE removed \ {<<id, type>>}
              /\ UNCHANGED <<ingvars, call>>

RemoveEntry ==
    \E id \in Ids, type \in Types :
        /\ Install(remove_entry(Self, id, type, "ok"))
        /\ history' = IF history.phase = "inserts" /\ HasKey(metadata, id, type)
                      THEN [phase |-> "removed", n |-> history.n]
                      ELSE [phase |-> "other", n |-> 0]
        /\ removed' = IF HasKey(metadata, id, type) THEN removed \cup {<<id, type>>}
                      ELSE removed
        /\ UNCHANGED <<ingvars, call>>

UpdateEntry ==
    \E id \in Ids, type \in Types, text \in Texts, embedOk \in BOOLEAN :
        /\ Len(metadata) < MaxEntries \/ HasKey(metadata, id, type)
        /\ LET r == update_entry(Self, id, text, type, embedOk, "ok", "ok")
           IN /\ Install(r.self)
              /\ history' = [phase |-> "other", n |-> 0]
              /\ removed' = IF r.raised THEN removed ELSE removed \ {<<id, type>>}
              /\ UNCHANGED <<ingvars, call>>

\* FAISSIndex() where neither file exists: load_index creates a new, empty index
IndexInit ==
    /\ index = <<>>
    /\ metadata = <<>>
    /\ index_file = NoFile
    /\ metadata_file = NoFile
    /\ history = [phase |-> "inserts", n |-> 0]
    /\ removed = {}

IndexNext == AddEntry \/ RemoveEntry \/ UpdateEntry

(***************************************************************************)
(* Claims about the similarity index.                                      *)
(***************************************************************************)
Queries == Texts
Filters == Types \cup {NoType}

\* C1: after every call, the number of vectors in the vector store equals the number
\* of metadata entries.
C1_VectorsMatchMetadata == Len(index) = Len(metadata)

\* the vectors of the entries that do not match (id, type), in their order
Survivors(self, id, type) ==
    LET keep == {i \in 1..Len(self.metadata) : ~Matches(self.metadata[i], id, type)}
        F[i \in 0..Len(self.index)] ==
            IF i = 0 THEN <<>>
            ELSE IF i \in keep THEN Append(F[i - 1], self.index[i]) ELSE F[i - 1]
    IN F[Len(self.index)]

\* C2: a remove of an indexed entry, from a state where vectors and metadata are
\* aligned, leaves exactly the stored vectors of the surviving entries, in order.
C2_RemoveKeepsSurvivorVectors ==
    [][\A id \in Ids, type \in Types :
          (/\ Len(index) = Len(metadata)
           /\ HasKey(metadata, id, type)
           /\ Self' = remove_entry(Self, id, type, "ok"))
          => index' = Survivors(Self, id, type)]_vars

\* C3: after N >= 1 successful inserts of distinct records into an empty index and a
\* remove of one of them, get_stats reports N - 1 entries in total.
C3_StatsAfterRemove ==
    (history.phase = "removed" /\ history.n >= 1)
        => get_stats(Self).total_entries = history.n - 1

\* C4: no search returns a hit carrying the (id, type) of a record that was removed
\* and not inserted again.
C4_RemovedNeverReturned ==
    \A q \in Queries, k \in 1..MaxK, t \in Filters, embedOk \in BOOLEAN :
        \A r \in search(Self, q, k, t, embedOk) : \A i \in 1..Len(r) :
            <<r[i].id, r[i].metadata.type>> \notin removed

C4_Witness ==
    /\ removed # {}
    /\ \E q \in Queries, k \in 1..MaxK, t \in Filters :
          \E r \in search(Self, q, k, t, TRUE) : r # <<>>

\* the metadata positions whose record was inserted with a text that is embedded as t is
SameEmbeddedText(md, t) ==
    {i \in 1..Len(md) : CleanForEmbedding(md[i].text_preview) = CleanForEmbedding(t)}

\* C5: when exactly one entry of the index was inserted with text t (and no other
\* entry's text is embedded as t is), search(t, k=1) returns that record's id as its
\* only hit, with similarity 1.
C5_RoundTrip ==
    \A t \in Texts :
        Cardinality(SameEmbeddedText(metadata, t)) = 1
        => LET i == CHOOSE i \in SameEmbeddedText(metadata, t) : TRUE
           IN \A r \in search(Self, t, 1, NoType, TRUE) :
                /\ Len(r) = 1
                /\ r[1].id = metadata[i].id
                /\ ScoreIsOne(r[1].score)

\* C6: update_entry leaves the index as remove_entry followed by add_entry of the new
\* text (with the additional metadata update_entry carries over) leaves it.
C6_UpdateIsRemoveThenInsert ==
    \A id \in Ids, type \in Types, text \in Texts, embedOk \in BOOLEAN :
        LET i == FirstMatch(metadata, id, type)
            carried == IF i = 0 THEN NoMetadata ELSE metadata[i].extra
        IN update_entry(Self, id, text, type, embedOk, "ok", "ok").self
           = add_entry(remove_entry(Self, id, type, "ok"), text, id, type, carried,
                       embedOk, "ok").self

(***************************************************************************)
(* SimpleFAISSIndex (simple_faiss.py), the index the pipeline and the HTTP *)
(* server use.  Its metadata entries carry no additional metadata.         *)
(***************************************************************************)
\* SimpleFAISSIndex.save_index
simple_save_index(self, io) ==
    CASE io = "ok" ->
            [self EXCEPT !.index_file = self.index, !.metadata_file = self.metadata]
      [] io = "index_write_fails" -> self
      [] io = "metadata_write_fails" -> [self EXCEPT !.index_file = self.index]

\* SimpleFAISSIndex.add_entry
simple_add_entry(self, text, entry_id, entry_type, embedOk, io) ==
    IF ~embedOk THEN [self |-> self, raised |-> TRUE]
    ELSE LET embedding == Normalize(embed(text))
             added == [self EXCEPT
                         !.index = Append(self.index, embedding),
                         !.metadata = Append(self.metadata,
                                             [id |-> entry_id, type |-> entry_type,
                                              text_preview |-> text_preview(text)])]
         IN [self |-> simple_save_index(added, io), raised |-> FALSE]

\* the loop of SimpleFAISSIndex.search: a position beyond the metadata is passed over
RECURSIVE SimpleCollect(_, _, _, _, _, _, _)
SimpleCollect(self, q, order, i, k, entry_type, results) ==
    IF i > Len(order) THEN results
    ELSE LET idx == order[i]
         IN IF idx > Len(self.metadata)
            THEN SimpleCollect(self, q, order, i + 1, k, entry_type, results)
            ELSE LET meta == self.metadata[idx]
                     hit == [id |-> meta.id, score |-> InnerProduct(self.index[idx], q),
                             metadata |-> meta]
                 IN IF FilteredOut(meta, entry_type)
                    THEN SimpleCollect(self, q, order, i + 1, k, entry_type, results)
                    ELSE IF Len(results) + 1 >= k THEN Append(results, hit)
                         ELSE SimpleCollect(self, q, order, i + 1, k, entry_type,
                                            Append(results, hit))

SimpleOverFetch == 2     \* search_k = min(k * 2, ntotal)

\* SimpleFAISSIndex.search: the set of lists the call can return
simple_search(self, query_text, k, entry_type, embedOk) ==
    IF ~search_embeds_query(self) THEN {<<>>}
    ELSE IF ~embedOk THEN {<<>>}
    ELSE LET q == Normalize(embed(query_text))
             search_k == Min(k * SimpleOverFetch, Len(self.index))
         IN {SimpleCollect(self, q, o, 1, k, entry_type, <<>>) :
               o \in TopOrders(self.index, q, search_k)}

\* SimpleFAISSIndex.load_index: both files are read, or neither
simple_load_index(files) ==
    IF files.index_file # NoFile /\ files.metadata_file # NoFile
    THEN [index |-> files.index_file, metadata |-> files.metadata_file]
    ELSE [index |-> <<>>, metadata |-> <<>>]

(***************************************************************************)
(* Hashing and date segmentation (ingest_journal_images.py).               *)
(***************************************************************************)
\* str.lower(), character by character
LowerChar(c) ==
    CASE c = "A" -> "a"
      [] c = "B" -> "b"
      [] c = "D1" -> "d1"
      [] c = "D2" -> "d2"
      [] OTHER -> c

LowerStr(s) == [i \in 1..Len(s) |-> LowerChar(s[i])]

\* compute_text_hash: the SHA-256 digest of the normalised text; the digest is kept
\* as the text it is computed from (no collisions)
compute_text_hash(text) ==
    <<"sha256", Replace(Replace(LowerStr(Strip(text)), NL, <<SP>>), CR, <<>>)>>

\* The date expressions dateparser recognises: "D1" and "D2" each stand for one date
\* written out in the text, one position wide; "d1" is the date of "D1" written in
\* lower case, which dateparser reads as the same date.
NoDate == "None"
DateStrings == {"D1", "D2", "d1"}
ParseDate(date_str) ==
    IF date_str \in {"D1", "d1"} THEN <<2025, 6, 12>> ELSE <<2025, 6, 13>>

\* dateparser.search.search_dates: the (date_str, date_obj) pairs, in text order
search_dates(text) ==
    LET F[i \in 0..Len(text)] ==
            IF i = 0 THEN <<>>
            ELSE IF text[i] \in DateStrings
                 THEN Append(F[i - 1], <<text[i], ParseDate(text[i])>>)
                 ELSE F[i - 1]
    IN F[Len(text)]

\* text.find(date_str): the first position of date_str, 0 when it does not occur
Find(text, date_str) ==
    IF \E i \in 1..Len(text) : text[i] = date_str
    THEN CHOOSE i \in 1..Len(text) :
            text[i] = date_str /\ \A j \in 1..(i - 1) : text[j] # date_str
    ELSE 0

\* list.sort(key=lambda x: x[0]): stable, ascending by position
RECURSIVE InsertByPos(_, _)
InsertByPos(sorted, x) ==
    IF sorted = <<>> THEN <<x>>
    ELSE IF sorted[Len(sorted)].pos <= x.pos THEN Append(sorted, x)
    ELSE Append(InsertByPos(SubSeq(sorted, 1, Len(sorted) - 1), x), sorted[Len(sorted)])

RECURSIVE SortByPos(_)
SortByPos(xs) ==
    IF xs = <<>> THEN <<>>
    ELSE InsertByPos(SortByPos(SubSeq(xs, 1, Len(xs) - 1)), xs[Len(xs)])

\* extract_dates_and_split as it would be if it trimmed the text of a single block
extract_dates_and_split_trims_single(text) ==
    LET found_dates == search_dates(text)
    IN <<[date |-> IF found_dates = <<>> THEN NoDate ELSE found_dates[1][2],
          text |-> Strip(text)]>>

\* extract_dates_and_split as it would be without `if block_text:`
extract_dates_and_split_keeps_empty(text) ==
    LET found_dates == search_dates(text)
    IN IF Len(found_dates) <= 1
       THEN <<[date |-> IF found_dates = <<>> THEN NoDate ELSE found_dates[1][2],
               text |-> text]>>
       ELSE LET located == [i \in 1..Len(found_dates) |->
                              [pos |-> Find(text, found_dates[i][1]),
                               date_obj |-> found_dates[i][2]]]
                date_positions == SortByPos(SelectSeq(located, LAMBDA x : x.pos # 0))
                n == Len(date_positions)
            IN [i \in 1..n |->
                  [date |-> date_positions[i].date_obj,
                   text |-> Strip(SubSeq(text, date_positions[i].pos,
                                         IF i + 1 <= n THEN date_positions[i + 1].pos - 1
                                         ELSE Len(text)))]]

\* extract_dates_and_split: the (date, block text) pairs
extract_dates_and_split(text) ==
    LET found_dates == search_dates(text)
    IN IF Len(found_dates) <= 1
       THEN <<[date |-> IF found_dates = <<>> THEN NoDate ELSE found_dates[1][2],
               text |-> text]>>
       ELSE LET located == [i \in 1..Len(found_dates) |->
                              [pos |-> Find(text, found_dates[i][1]),
                               date_obj |-> found_dates[i][2]]]
                date_positions == SortByPos(SelectSeq(located, LAMBDA x : x.pos # 0))
                n == Len(date_positions)
                block_text(i) ==
                    Strip(SubSeq(text, date_positions[i].pos,
                                 IF i + 1 <= n THEN date_positions[i + 1].pos - 1
                                 ELSE Len(text)))
                B[i \in 0..n] ==
                    IF i = 0 THEN <<>>
                    ELSE IF block_text(i) # <<>>
                         THEN Append(B[i - 1], [date |-> date_positions[i].date_obj,
                                                text |-> block_text(i)])
                         ELSE B[i - 1]
            IN IF B[n] # <<>> THEN B[n] ELSE <<[date |-> NoDate, text |-> text]>>

(***************************************************************************)
(* The images of the model and the external collaborators' answers.        *)
(***************************************************************************)
MaxRuns == 2        \* ingest runs started in one behaviour
MaxBatch == 2       \* images per run

PageA == <<"uploads", "a.jpg">>        \* one dated entry
PageB == <<"uploads", "b.jpg">>        \* two dated entries, the first also on page a; tesseract reads nothing
Corrupt == <<"uploads", "corrupt.jpg">> \* a file PIL cannot open
Missing == <<"uploads", "missing.jpg">> \* a path with no file
Images == {PageA, PageB, Corrupt, Missing}
PageC == <<"uploads", "c.jpg">>        \* the same dated entry written twice; uploaded only

\* os.path.exists / os.path.basename
path_exists(image_path) == image_path # Missing
basename(image_path) == image_path[Len(image_path)]

\* imagehash.phash succeeds on a decodable image
Decodable(image_path) == image_path # Corrupt
phash(image_path) ==
    CASE image_path = PageA -> "h-a"
      [] image_path = PageB -> "h-b"
      [] image_path = PageC -> "h-c"
      [] OTHER -> "h-none"

\* the text the OpenAI vision model answers with
VisionText(image_path) ==
    CASE image_path = PageA -> <<"D1", SP, "a", NL>>
      [] image_path = PageB -> <<"D1", SP, "A", NL, "D2", SP, "b">>
      [] image_path = PageC -> <<"D1", SP, "a", NL, "d1", SP, "a">>
      [] OTHER -> <<>>

\* pytesseract.image_to_string; <<>> also stands for its failure (Corrupt)
TesseractText(image_path) ==
    CASE image_path = PageA -> <<"D1", SP, "b", NL>>
      [] OTHER -> <<>>

\* ocr_with_tesseract: the text, stripped ("" when tesseract fails)
ocr_with_tesseract(image_path) == Strip(TesseractText(image_path))

\* what the vision call does: it answers with the text, answers with no content, or raises
ApiOutcomes == {"answers", "empty", "raises"}

\* ocr_with_openai: the stripped answer ("" when the answer has no content), or the
\* tesseract fallback when the call raises
ocr_with_openai(image_path, api) ==
    CASE api = "answers" -> Strip(VisionText(image_path))
      [] api = "empty" -> <<>>
      [] api = "raises" -> ocr_with_tesseract(image_path)

\* the OCR engines process_journal_image ran
EnginesRun(api) == IF api = "raises" THEN {"ocr", "tesseract"} ELSE {"ocr"}

MaxTags == 5
MaxInsights == 3
Take(xs, n) == SubSeq(xs, 1, Min(n, Len(xs)))

\* what the tagging model answers
TaggerAnswer ==
    [tags |-> <<"t1", "t2", "t3", "t4", "t5", "t6">>,
     core_insights |-> <<"i1", "i2", "i3", "i4">>]

\* analyze_journal_block as it would be if a failed call were not answered with empty lists
analyze_journal_block_no_fallback(text, tagOk) ==
    [tags |-> Take(TaggerAnswer.tags, MaxTags),
     core_insights |-> Take(TaggerAnswer.core_insights, MaxInsights)]

\* analyze_journal_block as it would be without the slices [:5] and [:3]
analyze_journal_block_unlimited(text, tagOk) ==
    IF tagOk THEN TaggerAnswer ELSE [tags |-> <<>>, core_insights |-> <<>>]

\* analyze_journal_block: at most 5 tags and 3 insights; empty lists when the call fails
analyze_journal_block(text, tagOk) ==
    IF tagOk THEN [tags |-> Take(TaggerAnswer.tags, MaxTags),
                   core_insights |-> Take(TaggerAnswer.core_insights, MaxInsights)]
    ELSE [tags |-> <<>>, core_insights |-> <<>>]

\* embedding_to_base64: the bytes of the float32 array, base64-encoded
embedding_to_base64(embedding) == <<"b64", embedding>>

(***************************************************************************)
(* Storage (db.py): the journal_entries table.                             *)
(***************************************************************************)
None == "None"

\* Query.first(): NoRow for None, else the one-element tuple of the first row
NoRow == <<>>

\* a lookup that never finds the image
check_duplicate_image_never_found(image_hash, rows) == NoRow

\* db.query(JournalEntry).filter(JournalEntry.image_hash == image_hash).first()
check_duplicate_image(image_hash, rows) ==
    LET hits == {i \in 1..Len(rows) : rows[i].image_hash = image_hash}
    IN IF hits = {} THEN NoRow ELSE <<rows[CHOOSE i \in hits : \A j \in hits : i <= j]>>

\* a lookup that never finds the text
check_duplicate_text_never_found(text_hash, rows) == NoRow

\* db.query(JournalEntry).filter(JournalEntry.transcript_hash == text_hash).first()
check_duplicate_text(text_hash, rows) ==
    LET hits == {i \in 1..Len(rows) : rows[i].transcript_hash = text_hash}
    IN IF hits = {} THEN NoRow ELSE <<rows[CHOOSE i \in hits : \A j \in hits : i <= j]>>

\* the image_hash column without unique=True
ImageHashConflict_not_unique(rows, entry) == FALSE

\* image_hash = Column(String, index=True, unique=True): NULLs do not conflict
ImageHashConflict(rows, entry) ==
    entry.image_hash # None /\ \E i \in 1..Len(rows) : rows[i].image_hash = entry.image_hash

\* the transcript_hash column without unique=True
TranscriptHashConflict_not_unique(rows, entry) == FALSE

\* transcript_hash = Column(String, index=True, unique=True)
TranscriptHashConflict(rows, entry) ==
    entry.transcript_hash # None
    /\ \E i \in 1..Len(rows) : rows[i].transcript_hash = entry.transcript_hash

\* db.add(entry) and db.flush() without db.commit(): the entry gets its primary key but
\* no row is stored
db_commit_not_committed(rows, entry) ==
    [raised |-> FALSE, rows |-> rows, id |-> Len(rows) + 1]

\* db.add(entry); db.commit(): IntegrityError on a uniqueness conflict, else the row is
\* appended with the next primary key
db_commit(rows, entry) ==
    IF ImageHashConflict(rows, entry) \/ TranscriptHashConflict(rows, entry)
    THEN [raised |-> TRUE, rows |-> rows, id |-> 0]
    ELSE [raised |-> FALSE,
          rows |-> Append(rows, [entry EXCEPT !.id = Len(rows) + 1]),
          id |-> Len(rows) + 1]

(***************************************************************************)
(* The ingest pipeline.  Two processes run it: the command line            *)
(* (ingest_journal_images.main) and the HTTP server (main.upload_images).  *)
(* Each holds its own SimpleFAISSIndex instance, created when the process  *)
(* imports simple_faiss; they share the database and the index files.      *)
(* A run is a sequence of steps; each step touches the database once.      *)
(***************************************************************************)
Procs == {"cli", "server"}

Batches == UNION {[1..n -> Images] : n \in 1..MaxBatch}

EmptySummary == [processed |-> <<>>, skipped_duplicates |-> <<>>, errors |-> <<>>]

Idle ==
    [pc |-> "idle", queue |-> <<>>, image_hash |-> None, date_blocks |-> <<>>, i |-> 0,
     processed_entries |-> <<>>, journal_entry |-> None, analysis |-> None,
     summary |-> EmptySummary, results |-> <<>>, invoked |-> {}, prior |-> {},
     error |-> None]

Files == [index_file |-> index_file, metadata_file |-> metadata_file]

\* the module-level faiss_index of process p, with the files it saves to
SimpleSelf(p) ==
    [index |-> mem[p].index, metadata |-> mem[p].metadata,
     index_file |-> index_file, metadata_file |-> metadata_file]

\* the loop of ingest_journal_images goes on to the next image, or returns the summary
NextImage(st, result, summary) ==
    [st EXCEPT !.pc = IF Len(st.queue) > 1 THEN "image" ELSE "done",
               !.queue = Tail(st.queue),
               !.image_hash = None, !.date_blocks = <<>>, !.i = 0,
               !.processed_entries = <<>>, !.journal_entry = None, !.analysis = None,
               !.summary = summary,
               !.results = Append(st.results, [image |-> Head(st.queue), result |-> result])]

\* ingest_journal_images, lines 325-330: the result of one image enters the summary
Summarize(summary, image_path, result) ==
    CASE result.kind = "error" ->
            [summary EXCEPT !.errors = Append(@, <<image_path, result.error>>)]
      [] result.kind = "skipped" ->
            [summary EXCEPT !.skipped_duplicates = Append(@, basename(image_path))]
      [] result.kind = "processed" ->
            [summary EXCEPT !.processed = @ \o result.processed]

\* process_journal_image returns `result`
Return(st, result) ==
    NextImage(st, result, Summarize(st.summary, Head(st.queue), result))

\* the for loop over date_blocks goes on to the next block, or the image is done
NextBlock(st) ==
    IF st.i < Len(st.date_blocks)
    THEN [st EXCEPT !.pc = "block", !.i = st.i + 1, !.journal_entry = None,
                    !.analysis = None]
    ELSE Return(st, [kind |-> "processed", processed |-> st.processed_entries])

\* an exception leaves ingest_journal_images: the run ends without a summary
Crash(st, e) == [st EXCEPT !.pc = "crashed", !.error = e]

\* A process starts a run on a batch of image paths.  The command line is a new
\* process each time: importing simple_faiss loads the index from the files.
StartRun(p) ==
    \E batch \in Batches :
        /\ proc[p].pc \in {"idle", "done", "crashed"}
        /\ runs < MaxRuns
        /\ runs' = runs + 1
        /\ mem' = IF p = "cli" THEN [mem EXCEPT ![p] = simple_load_index(Files)] ELSE mem
        /\ proc' = [proc EXCEPT ![p] = [Idle EXCEPT !.pc = "image", !.queue = batch,
                                                    !.prior = ingested]]
        /\ UNCHANGED <<call, idxvars, filevars, db, ingested>>

\* process_journal_image up to the loop over the blocks (lines 319-253), for the
\* image at the head of the queue
ImageStep(p) ==
    LET st == proc[p]
        image_path == Head(st.queue)
    IN /\ st.pc = "image"
       /\ \E api \in ApiOutcomes :
            LET image_hash == phash(image_path)
                existing_image == check_duplicate_image(image_hash, db)
                raw_text == ocr_with_openai(image_path, api)
                date_blocks == extract_dates_and_split(raw_text)
            IN proc' = [proc EXCEPT ![p] =
                 IF ~path_exists(image_path)
                 THEN NextImage(st, [kind |-> "not_found"],
                                [st.summary EXCEPT !.errors =
                                    Append(@, <<image_path, "File not found">>)])
                 ELSE IF ~Decodable(image_path)
                 THEN Return([st EXCEPT !.invoked = {}],
                             [kind |-> "error", error |-> "Failed to compute image hash"])
                 ELSE IF existing_image # NoRow
                 THEN Return([st EXCEPT !.invoked = {}],
                             [kind |-> "skipped", existing_id |-> existing_image[1].id])
                 ELSE IF Strip(raw_text) = <<>>
                 THEN Return([st EXCEPT !.invoked = EnginesRun(api)],
                             [kind |-> "error", error |-> "No text extracted from image"])
                 ELSE [st EXCEPT !.pc = "block", !.image_hash = image_hash,
                                 !.date_blocks = date_blocks, !.i = 1,
                                 !.processed_entries = <<>>,
                                 !.invoked = EnginesRun(api) \cup {"segment"}]]
       /\ UNCHANGED <<call, idxvars, filevars, db, mem, runs, ingested>>

\* the observer's set after process p moved to st: an image enters it when
\* process_journal_image returned a non-empty list of created entries for it
IngestedAfter(p, st) ==
    IF Len(st.results) > Len(proc[p].results)
       /\ st.results[Len(st.results)].result.kind = "processed"
       /\ st.results[Len(st.results)].result.processed # <<>>
    THEN ingested \cup {st.results[Len(st.results)].image}
    ELSE ingested

\* date_obj.strftime("%Y-%m-%d") if date_obj else None
strftime(date_obj) == IF date_obj = NoDate THEN None ELSE <<"%Y-%m-%d", date_obj>>

\* the collaborators called for the image, after a block was analysed and embedded;
\* "tag_error" tells that the tagging call of the latest analysed block failed
Analysed(invoked, tagOk) ==
    (invoked \ {"tag_error"}) \cup {"tag", "embed"}
        \cup (IF tagOk THEN {} ELSE {"tag_error"})

\* One pass of the loop over the blocks up to db.add (lines 256-283): the duplicate
\* check, the analysis, the embedding and the JournalEntry object
BlockStep(p) ==
    LET st == proc[p]
        image_path == Head(st.queue)
        block == st.date_blocks[st.i]
        text_hash == compute_text_hash(block.text)
        existing_text == check_duplicate_text(text_hash, db)
    IN /\ st.pc = "block"
       /\ \E tagOk \in BOOLEAN, embedOk \in BOOLEAN :
            LET analysis == analyze_journal_block(block.text, tagOk)
                journal_entry ==
                    [id |-> None, date |-> block.date, text |-> block.text,
                     tags |-> analysis.tags, core_insights |-> analysis.core_insights,
                     image_paths |-> <<image_path>>,
                     image_hash |-> IF st.i = 1 THEN st.image_hash ELSE None,
                     transcript_hash |-> text_hash,
                     embedding |-> embedding_to_base64(embed(block.text))]
                next == IF existing_text # NoRow THEN NextBlock(st)
                        ELSE IF ~embedOk
                        THEN Crash([st EXCEPT !.invoked = Analysed(@, tagOk)], "embed")
                        ELSE [st EXCEPT !.pc = "commit", !.analysis = analysis,
                                        !.journal_entry = journal_entry,
                                        !.invoked = Analysed(@, tagOk)]
            IN /\ proc' = [proc EXCEPT ![p] = next]
               /\ ingested' = IngestedAfter(p, next)
       /\ UNCHANGED <<call, idxvars, filevars, db, mem, runs>>

\* db.add, db.commit, db.refresh (lines 285-287)
CommitStep(p) ==
    LET st == proc[p]
        r == db_commit(db, st.journal_entry)
    IN /\ st.pc = "commit"
       /\ db' = r.rows
       /\ proc' = [proc EXCEPT ![p] =
                     IF r.raised THEN Crash(st, "IntegrityError")
                     ELSE [st EXCEPT !.pc = "index", !.journal_entry.id = r.id]]
       /\ UNCHANGED <<call, idxvars, filevars, mem, runs, ingested>>

\* faiss_index.add_entry and the entry of the summary (lines 289-299)
IndexStep(p) ==
    LET st == proc[p]
        entry == st.journal_entry
    IN /\ st.pc = "index"
       /\ \E embedOk \in BOOLEAN :
            LET r == simple_add_entry(SimpleSelf(p), entry.text, entry.id, "journal",
                                      embedOk, "ok")
                created == [entry_id |-> entry.id, date |-> strftime(entry.date),
                            tags |-> st.analysis.tags,
                            insights_count |-> Len(st.analysis.core_insights)]
                next == IF r.raised THEN Crash(st, "add_entry")
                        ELSE NextBlock([st EXCEPT !.processed_entries = Append(@, created)])
            IN /\ mem' = [mem EXCEPT ![p] = [index |-> r.self.index,
                                             metadata |-> r.self.metadata]]
               /\ index_file' = r.self.index_file
               /\ metadata_file' = r.self.metadata_file
               /\ proc' = [proc EXCEPT ![p] = next]
               /\ ingested' = IngestedAfter(p, next)
       /\ UNCHANGED <<call, idxvars, db, runs>>

IngestInit ==
    /\ db = <<>>
    /\ mem = [p \in Procs |-> [index |-> <<>>, metadata |-> <<>>]]
    /\ proc = [p \in Procs |-> Idle]
    /\ runs = 0
    /\ ingested = {}

\* no text function has been called
NoCall == [fn |-> "none"]

Init == IndexInit /\ IngestInit /\ call = NoCall

IngestNext ==
    \E p \in Procs : StartRun(p) \/ ImageStep(p) \/ BlockStep(p) \/ CommitStep(p) \/ IndexStep(p)

\* the FAISSIndex class on its own
SpecIndex == Init /\ [][IndexNext]_vars

\* the ingest pipeline, run by the two processes
SpecIngest == Init /\ [][IngestNext]_vars

(***************************************************************************)
(* Properties of the ingest pipeline.                                      *)
(***************************************************************************)
\* the results a process has obtained from process_journal_image in its current run
ResultsOf(p) == {proc[p].results[k] : k \in 1..Len(proc[p].results)}

\* C7: an image that an earlier run ingested (process_journal_image returned created
\* entries for it before this run began) is, when this run processes it again,
\* skipped as a duplicate image and listed in the summary's skipped_duplicates; the
\* run creates nothing for it.
C7_SecondIngestIsSkipped ==
    \A p \in Procs : \A r \in ResultsOf(p) :
        r.image \in proc[p].prior =>
            /\ r.result.kind = "skipped"
            /\ \E k \in 1..Len(proc[p].summary.skipped_duplicates) :
                 proc[p].summary.skipped_duplicates[k] = basename(r.image)

\* C8: no two rows of journal_entries share a transcript_hash that is not NULL.
C8_TranscriptHashUnique ==
    \A i, j \in 1..Len(db) :
        (i # j /\ db[i].transcript_hash # None) => db[i].transcript_hash # db[j].transcript_hash

\* two rows are stored and a commit of a third entry with a stored transcript_hash
\* was refused
C8_Witness ==
    /\ Len(db) >= 2
    /\ \E p \in Procs :
         /\ proc[p].pc = "crashed" /\ proc[p].error = "IntegrityError"
         /\ \E i \in 1..Len(db) :
              db[i].transcript_hash = proc[p].journal_entry.transcript_hash

\* the texts of the blocks the pipeline can cut out of an image, by position
BlocksOf(image_path) ==
    {extract_dates_and_split(ocr_with_openai(image_path, api)) : api \in ApiOutcomes}

\* C9: at most one row carries a given image_hash; a row that is the first block of
\* its image carries that image's hash, and a row that is a later block of its image
\* carries no image_hash.
C9_OneRowPerImageHash ==
    /\ \A i, j \in 1..Len(db) :
         (i # j /\ db[i].image_hash # None) => db[i].image_hash # db[j].image_hash
    /\ \A i \in 1..Len(db) :
         \E blocks \in BlocksOf(db[i].image_paths[1]) : \E n \in 1..Len(blocks) :
            /\ blocks[n].text = db[i].text
            /\ db[i].image_hash = IF n = 1 THEN phash(db[i].image_paths[1]) ELSE None

\* both blocks of one image are stored, one with the image's hash and one without
C9_Witness ==
    \E i, j \in 1..Len(db) :
        /\ db[i].image_paths = db[j].image_paths
        /\ db[i].image_hash # None
        /\ db[j].image_hash = None

\* the image at the head of p's queue exists, decodes, and its hash is stored
HashIsStored(p) ==
    /\ proc[p].pc = "image"
    /\ path_exists(Head(proc[p].queue))
    /\ Decodable(Head(proc[p].queue))
    /\ \E i \in 1..Len(db) : db[i].image_hash = phash(Head(proc[p].queue))

\* C10: when the hash of the image is the image_hash of a stored row, processing the
\* image returns skipped/duplicate_image with the id of that row, calls neither OCR,
\* date splitting, tagging nor embedding, and changes neither the table nor any index
\* (in memory or on disk).
C10_DuplicateImageStep ==
    \A p \in Procs :
        (HashIsStored(p) /\ proc'[p] # proc[p]) =>
            /\ db' = db /\ mem' = mem
            /\ index_file' = index_file /\ metadata_file' = metadata_file
            /\ index' = index /\ metadata' = metadata
            /\ Len(proc'[p].results) = Len(proc[p].results) + 1
            /\ LET r == proc'[p].results[Len(proc'[p].results)]
               IN /\ r.image = Head(proc[p].queue)
                  /\ r.result.kind = "skipped"
                  /\ \E i \in 1..Len(db) :
                       db[i].id = r.result.existing_id /\ db[i].image_hash = phash(r.image)
            /\ proc'[p].invoked = {}
            /\ proc'[p].pc \in {"image", "done"}
            /\ proc'[p].summary.skipped_duplicates =
                 Append(proc[p].summary.skipped_duplicates, basename(Head(proc[p].queue)))

C10_DuplicateImageFrame == [][C10_DuplicateImageStep]_vars

\* an image was skipped as a duplicate while rows are stored
C10_Witness ==
    /\ db # <<>>
    /\ \E p \in Procs : \E r \in ResultsOf(p) : r.result.kind = "skipped"

\* process p is at a block whose text hash is the transcript_hash of a stored row
TextIsStored(p) ==
    /\ proc[p].pc = "block"
    /\ \E n \in 1..Len(db) :
         db[n].transcript_hash = compute_text_hash(proc[p].date_blocks[proc[p].i].text)

\* C11: a block whose text hash is stored is skipped alone: the step writes no row and
\* no index entry, creates no entry for the block, and the loop goes on with the next
\* block of the same image (or, after the last block, returns what the other blocks
\* created).
C11_DuplicateTextStep ==
    \A p \in Procs :
        (TextIsStored(p) /\ proc'[p] # proc[p]) =>
            /\ db' = db /\ mem' = mem
            /\ index_file' = index_file /\ metadata_file' = metadata_file
            /\ IF proc[p].i < Len(proc[p].date_blocks)
               THEN /\ proc'[p].pc = "block"
                    /\ proc'[p].i = proc[p].i + 1
                    /\ proc'[p].date_blocks = proc[p].date_blocks
                    /\ proc'[p].queue = proc[p].queue
                    /\ proc'[p].processed_entries = proc[p].processed_entries
               ELSE /\ proc'[p].pc \in {"image", "done"}
                    /\ Len(proc'[p].results) = Len(proc[p].results) + 1
                    /\ LET r == proc'[p].results[Len(proc'[p].results)]
                       IN /\ r.image = Head(proc[p].queue)
                          /\ r.result.kind = "processed"
                          /\ r.result.processed = proc[p].processed_entries

C11_DuplicateTextSkipsBlockOnly == [][C11_DuplicateTextStep]_vars

\* the first block of a two-block image was skipped as a text duplicate and its second
\* block became a row (without image_hash) and an entry of the result
C11_Witness ==
    \E p \in Procs : \E r \in ResultsOf(p) :
        /\ r.result.kind = "processed"
        /\ Len(r.result.processed) = 1
        /\ \E blocks \in BlocksOf(r.image) : Len(blocks) = 2
        /\ \E n \in 1..Len(db) :
             /\ db[n].id = r.result.processed[1].entry_id
             /\ db[n].image_paths = <<r.image>>
             /\ db[n].image_hash = None

\* C12: a failing step of one image (hashing, OCR, embedding, commit or index insert)
\* never ends the run: the failure is an entry of the summary's errors for that image
\* and the run goes on to the next image, so no run is left by an exception.
C12_FailureDoesNotAbortBatch ==
    \A p \in Procs :
        /\ proc[p].pc # "crashed"
        /\ \A r \in ResultsOf(p) :
             r.result.kind = "error" =>
                \E n \in 1..Len(proc[p].summary.errors) :
                    proc[p].summary.errors[n] = <<r.image, r.result.error>>

\* C13: a commit refused by a uniqueness constraint, after the duplicate checks of the
\* run passed, is handled as a duplicate: no row is added, the block is skipped, and the
\* run goes on with its next block or image.
C13_ConflictStep ==
    \A p \in Procs :
        (/\ proc[p].pc = "commit"
         /\ db_commit(db, proc[p].journal_entry).raised
         /\ proc'[p] # proc[p])
        => /\ db' = db
           /\ proc'[p].pc \in {"block", "image", "done"}
           /\ proc'[p].processed_entries = proc[p].processed_entries
                \/ proc'[p].pc \in {"image", "done"}

C13_ConflictIsAlreadyExists == [][C13_ConflictStep]_vars

(***************************************************************************)
(* The two index classes over a disk whose writes can fail.  Both classes  *)
(* default to the same two paths (faiss.index, faiss_metadata.pkl).  A     *)
(* program using an index can end and start again: its module-level        *)
(* instance is constructed anew and loads the files.  `history` records    *)
(* the last call and how it ended.                                         *)
(***************************************************************************)
DiskTexts == {<<"a">>, <<"b">>}

\* FAISSIndex.add_entry on a disk that may fail
AddEntryDisk ==
    \E text \in DiskTexts, id \in Ids, embedOk \in BOOLEAN, io \in SaveOutcomes :
        /\ Len(metadata) < MaxEntries /\ Len(index) < MaxEntries
        /\ LET r == add_entry(Self, text, id, "journal", NoMetadata, embedOk, io)
           IN /\ Install(r.self)
              /\ history' = [phase |-> IF r.raised THEN "add_raised" ELSE "added", n |-> 0]
        /\ UNCHANGED <<removed, ingvars, call>>

\* FAISSIndex(): the constructor of a new process loads the files
Restart ==
    /\ index' = load_index(Files).index
    /\ metadata' = load_index(Files).metadata
    /\ history' = [phase |-> "loaded", n |-> 0]
    /\ UNCHANGED <<filevars, removed, ingvars, call>>

\* SimpleFAISSIndex.add_entry (the server's instance) on a disk that may fail
SimpleAddEntryDisk ==
    \E text \in DiskTexts, id \in Ids, embedOk \in BOOLEAN, io \in SaveOutcomes :
        /\ Len(mem["server"].metadata) < MaxEntries
        /\ Len(mem["server"].index) < MaxEntries
        /\ LET r == simple_add_entry(SimpleSelf("server"), text, id, "journal", embedOk, io)
           IN /\ mem' = [mem EXCEPT !["server"] = [index |-> r.self.index,
                                                  metadata |-> r.self.metadata]]
              /\ index_file' = r.self.index_file
              /\ metadata_file' = r.self.metadata_file
              /\ history' = [phase |-> IF r.raised THEN "simple_add_raised"
                                       ELSE "simple_added", n |-> 0]
        /\ UNCHANGED <<call, index, metadata, removed, db, proc, runs, ingested>>

\* SimpleFAISSIndex(): the server starts again and loads the files
SimpleRestart ==
    /\ mem' = [mem EXCEPT !["server"] = simple_load_index(Files)]
    /\ history' = [phase |-> "simple_loaded", n |-> 0]
    /\ UNCHANGED <<call, index, metadata, filevars, removed, db, proc, runs, ingested>>

DiskNext == AddEntryDisk \/ Restart \/ SimpleAddEntryDisk \/ SimpleRestart

\* the index classes over a failing disk
SpecDisk == Init /\ [][DiskNext]_vars

\* the file exists and its content is `content`
FileHolds(file, content) == file # NoFile /\ file = content

\* C14: when an insert has returned normally, the index file holds the vectors in
\* memory and the metadata file holds the metadata in memory, the new entry included
\* (a failed write of either file makes the insert raise).
C14_InsertPersistsOrRaises ==
    /\ history.phase = "added" =>
          (FileHolds(index_file, index) /\ FileHolds(metadata_file, metadata))
    /\ history.phase = "simple_added" =>
          /\ FileHolds(index_file, mem["server"].index)
          /\ FileHolds(metadata_file, mem["server"].metadata)

\* what a load may leave in memory: the pair of the files when both exist and agree in
\* count, otherwise nothing
WholePairOrEmpty(ix, md) ==
    IF /\ index_file # NoFile
       /\ metadata_file # NoFile
       /\ Len(index_file) = Len(metadata_file)
    THEN FileHolds(index_file, ix) /\ FileHolds(metadata_file, md)
    ELSE ix = <<>> /\ md = <<>>

\* C15: right after the constructor loaded the index, memory holds the complete pair of
\* persisted vectors and metadata, or, when a file is absent or the two disagree in
\* count, no vector and no metadata entry.
C15_LoadIsPairOrEmpty ==
    /\ history.phase = "loaded" => WholePairOrEmpty(index, metadata)
    /\ history.phase = "simple_loaded" =>
          WholePairOrEmpty(mem["server"].index, mem["server"].metadata)

\* C16: a search never observes a state in which the vector count and the metadata
\* length differ, whichever insert, remove or rebuild ran before it: an unfiltered
\* search for k neighbours reports min(k, number of metadata entries) hits.
C16_SearchObservesWholeState ==
    \A q \in Queries, k \in 1..MaxK :
        \A r \in search(Self, q, k, NoType, TRUE) : Len(r) = Min(k, Len(metadata))

\* the groups of the summary an image's result puts the image in
GroupsOf(summary, r) ==
    {g \in {"processed", "skipped_duplicates", "errors"} :
        CASE g = "processed" ->
                /\ r.result.kind = "processed"
                /\ \E m \in 1..Len(r.result.processed) : \E n \in 1..Len(summary.processed) :
                      summary.processed[n] = r.result.processed[m]
          [] g = "skipped_duplicates" ->
                /\ r.result.kind = "skipped"
                /\ \E n \in 1..Len(summary.skipped_duplicates) :
                      summary.skipped_duplicates[n] = basename(r.image)
          [] g = "errors" ->
                /\ r.result.kind \in {"error", "not_found"}
                /\ \E n \in 1..Len(summary.errors) : summary.errors[n][1] = r.image}

\* C17: in the summary a run returns, every image of the batch is in exactly one group:
\* it contributed an entry to processed, or its name is in skipped_duplicates, or it
\* has an entry in errors.
C17_SummaryPartitionsImages ==
    \A p \in Procs :
        proc[p].pc = "done" =>
            \A r \in ResultsOf(p) : Cardinality(GroupsOf(proc[p].summary, r)) = 1

\* C18: an image ends in the error "No text extracted from image" only after the
\* secondary engine (tesseract) was run on it and the text was still empty.
C18_NoTextOnlyAfterFallback ==
    \A p \in Procs :
        LET n == Len(proc[p].results)
        IN (/\ n > 0
            /\ proc[p].results[n].result.kind = "error"
            /\ proc[p].results[n].result.error = "No text extracted from image")
           => /\ "tesseract" \in proc[p].invoked
              /\ ocr_with_tesseract(proc[p].results[n].image) = <<>>

\* the entries process p has created for the image it is at, or last finished
CreatedEntries(st) ==
    IF st.pc \in {"block", "commit", "index"} THEN st.processed_entries
    ELSE IF st.results # <<>> /\ st.results[Len(st.results)].result.kind = "processed"
         THEN st.results[Len(st.results)].result.processed
         ELSE <<>>

\* C19: when the tagging call fails for a block, the block still becomes a row and an
\* index entry, with no tags and no insights: the failed call leads to the commit (only
\* a failing embedding ends the block), the commit stores the row with empty tags and
\* insights, and the index step adds the entry and reports it with no tags.
C19_TagFailureStep ==
    \A p \in Procs :
        LET st == proc[p]
            nx == proc'[p]
        IN /\ (/\ st.pc = "block" /\ nx # st /\ ~TextIsStored(p)
               /\ "tag_error" \in nx.invoked)
              => \/ nx.pc = "crashed" /\ nx.error = "embed"
                 \/ /\ nx.pc = "commit"
                    /\ nx.journal_entry.text = st.date_blocks[st.i].text
                    /\ nx.journal_entry.tags = <<>>
                    /\ nx.journal_entry.core_insights = <<>>
           /\ (/\ st.pc = "commit" /\ nx # st /\ "tag_error" \in st.invoked
               /\ ~db_commit(db, st.journal_entry).raised)
              => /\ nx.pc = "index"
                 /\ Len(db') = Len(db) + 1
                 /\ db'[Len(db')].text = st.journal_entry.text
                 /\ db'[Len(db')].tags = <<>>
                 /\ db'[Len(db')].core_insights = <<>>
           /\ (st.pc = "index" /\ nx # st /\ "tag_error" \in st.invoked)
              => \/ nx.pc = "crashed" /\ nx.error = "add_entry"
                 \/ /\ nx.pc \in {"block", "image", "done"}
                    /\ Len(mem'[p].metadata) = Len(mem[p].metadata) + 1
                    /\ mem'[p].metadata[Len(mem'[p].metadata)].id = st.journal_entry.id
                    /\ LET made == CreatedEntries(nx)
                       IN /\ Len(made) = Len(st.processed_entries) + 1
                          /\ made[Len(made)].entry_id = st.journal_entry.id
                          /\ made[Len(made)].tags = <<>>
                          /\ made[Len(made)].insights_count = 0

C19_TagFailureKeepsBlock == [][C19_TagFailureStep]_vars

\* a block whose tagging call failed is a row without tags, an entry of the process's
\* index and an entry of the run's result
C19_Witness ==
    \E p \in Procs :
        /\ "tag_error" \in proc[p].invoked
        /\ proc[p].pc \in {"block", "image", "done"}
        /\ \E n \in 1..Len(db) :
             /\ db[n].tags = <<>> /\ db[n].core_insights = <<>>
             /\ \E m \in 1..Len(mem[p].metadata) : mem[p].metadata[m].id = db[n].id
             /\ \E e \in 1..Len(CreatedEntries(proc[p])) :
                  /\ CreatedEntries(proc[p])[e].entry_id = db[n].id
                  /\ CreatedEntries(proc[p])[e].tags = <<>>

\* C20: every hit of a search called with a type filter carries that type, for
\* FAISSIndex.search and for SimpleFAISSIndex.search over the same vectors and metadata.
C20_FilteredHitsHaveType ==
    \A q \in Queries, k \in 1..MaxK, t \in Types, embedOk \in BOOLEAN :
        \A r \in search(Self, q, k, t, embedOk) \cup simple_search(Self, q, k, t, embedOk) :
            \A i \in 1..Len(r) : r[i].metadata.type = t

\* the index holds entries of both types and a filtered search reports a hit
C20_Witness ==
    /\ Len(index) = Len(metadata)
    /\ \E i, j \in 1..Len(metadata) : metadata[i].type # metadata[j].type
    /\ \E q \in Queries, k \in 1..MaxK, t \in Types :
         /\ \E r \in search(Self, q, k, t, TRUE) : r # <<>>
         /\ \E r \in simple_search(Self, q, k, t, TRUE) : r # <<>>

\* C21: for every query, every k >= 1 and every filter, search returns at most k hits,
\* in order of non-increasing score (FAISSIndex.search and SimpleFAISSIndex.search).
C21_AtMostKBestFirst ==
    \A q \in Queries, k \in 1..MaxK, t \in Filters, embedOk \in BOOLEAN :
        \A r \in search(Self, q, k, t, embedOk) \cup simple_search(Self, q, k, t, embedOk) :
            /\ Len(r) <= k
            /\ \A i \in 1..(Len(r) - 1) : ScoreGeq(r[i].score, r[i + 1].score)

\* two entries are indexed: a search with k = 1 reports one of them, and a search with
\* k = 2 reports both, the second with a strictly lower score
C21_Witness ==
    /\ Len(index) = 2
    /\ Len(metadata) = 2
    /\ \E q \in Queries :
         /\ \E r \in search(Self, q, 1, NoType, TRUE) : Len(r) = 1
         /\ \E r \in simple_search(Self, q, 1, NoType, TRUE) : Len(r) = 1
         /\ \E r \in search(Self, q, 2, NoType, TRUE) :
              Len(r) = 2 /\ ~ScoreGeq(r[2].score, r[1].score)

\* C22: search on an index holding no vectors returns the empty list, whether or not
\* the embedding provider would answer, and does not reach the call of embed.
C22_EmptyIndexSearch ==
    Len(index) = 0 =>
        /\ ~search_embeds_query(Self)
        /\ \A q \in Queries, k \in 1..MaxK, t \in Filters, embedOk \in BOOLEAN :
             /\ search(Self, q, k, t, embedOk) = {<<>>}
             /\ simple_search(Self, q, k, t, embedOk) = {<<>>}

\* the index holds no vector after entries were added and removed: metadata is left
C22_Witness ==
    /\ Len(index) = 0
    /\ removed # {}
    /\ FileHolds(index_file, <<>>)

\* C23: remove_entry(entry_id, entry_type) with no matching metadata entry returns
\* normally and leaves the vectors, the metadata and both files as they were, whether
\* or not the disk would take a write.
C23_RemoveAbsentIsNoOp ==
    \A id \in Ids, type \in Types, io \in SaveOutcomes :
        ~HasKey(metadata, id, type) => remove_entry(Self, id, type, io) = Self

\* the index holds a vector and an entry, both saved, and some key is not in it
C23_Witness ==
    /\ Len(index) >= 1
    /\ Len(metadata) >= 1
    /\ FileHolds(index_file, index)
    /\ FileHolds(metadata_file, metadata)
    /\ \E id \in Ids, type \in Types : ~HasKey(metadata, id, type)

(***************************************************************************)
(* get_stats as a call next to the calls that change the index: it leaves  *)
(* its answer in `call`.                                                   *)
(***************************************************************************)
GetStats ==
    /\ call' = [fn |-> "get_stats", ret |-> get_stats(Self)]
    /\ UNCHANGED <<idxvars, filevars, ingvars>>

StatsNext == IndexNext \/ GetStats

SpecStats == Init /\ [][StatsNext]_vars

\* C24: get_stats always answers, changes nothing of the index, and its answer holds
\* the number of vectors, the number of entries of each type and the dimension 1536.
C24_StatsStep ==
    (call' # call /\ call'.fn = "get_stats") =>
        /\ UNCHANGED <<index, metadata, index_file, metadata_file>>
        /\ call'.ret.total_entries = Len(index)
        /\ call'.ret.journal_entries = Cardinality({i \in 1..Len(metadata) : metadata[i].type = "journal"})
        /\ call'.ret.influence_entries = Cardinality({i \in 1..Len(metadata) : metadata[i].type = "influence"})
        /\ call'.ret.journal_entries + call'.ret.influence_entries = Len(metadata)
        /\ call'.ret.dimension = 1536

C24_StatsReadOnlyAndTotal == [][C24_StatsStep]_vars

\* get_stats has answered for an index with fewer vectors than entries, of both types
C24_Witness ==
    /\ call.fn = "get_stats"
    /\ call.ret = get_stats(Self)
    /\ Len(index) < Len(metadata)
    /\ call.ret.journal_entries >= 1
    /\ call.ret.influence_entries >= 1

(***************************************************************************)
(* The text functions on their own: compute_text_hash and                  *)
(* extract_dates_and_split applied to one text out of all short texts.     *)
(***************************************************************************)
MaxTextLen == 4     \* the texts have at most this many characters

TextChars == {"a", "A", "b", SP, NL, CR, "D1", "D2"}
TextInputs == UNION {[1..n -> TextChars] : n \in 0..MaxTextLen}

\* the text a caller is about to pass
TextInit == IndexInit /\ IngestInit /\ call \in {[fn |-> "input", text |-> t] : t \in TextInputs}

\* extract_dates_and_split(text) is called and returns
Segment ==
    /\ call.fn = "input"
    /\ call' = [fn |-> "extract_dates_and_split", text |-> call.text,
                ret |-> extract_dates_and_split(call.text)]
    /\ UNCHANGED <<idxvars, filevars, ingvars>>

\* compute_text_hash(text) is called and returns
Hash ==
    /\ call.fn = "input"
    /\ call' = [fn |-> "compute_text_hash", text |-> call.text,
                ret |-> compute_text_hash(call.text)]
    /\ UNCHANGED <<idxvars, filevars, ingvars>>

TextNext == Segment \/ Hash

SpecText == TextInit /\ [][TextNext]_vars

\* the offsets at which a date expression occurs in the text, ascending
DateOffsets(text) ==
    LET F[i \in 0..Len(text)] ==
            IF i = 0 THEN <<>>
            ELSE IF text[i] \in DateStrings THEN Append(F[i - 1], i) ELSE F[i - 1]
    IN F[Len(text)]

\* C25: for a text with n >= 2 date expressions (at distinct offsets),
\* extract_dates_and_split returns n blocks: block i is the text from the offset of the
\* i-th date up to the offset of the next date (the last block up to the end of the
\* text), trimmed, paired with the i-th date.
C25_OneBlockPerDate ==
    (call.fn = "extract_dates_and_split" /\ Len(DateOffsets(call.text)) >= 2) =>
        LET text == call.text
            at == DateOffsets(text)
            n == Len(at)
        IN /\ Len(call.ret) = n
           /\ \A i \in 1..n :
                /\ call.ret[i].date = ParseDate(text[at[i]])
                /\ call.ret[i].text =
                     Strip(SubSeq(text, at[i], IF i < n THEN at[i + 1] - 1 ELSE Len(text)))

\* C26: for a text with no date or one date, extract_dates_and_split returns one block:
\* the whole text as passed, paired with the date, or with None when there is no date.
C26_SingleBlockIsWholeText ==
    (call.fn = "extract_dates_and_split" /\ Len(DateOffsets(call.text)) <= 1) =>
        call.ret = <<[date |-> IF DateOffsets(call.text) = <<>> THEN NoDate
                               ELSE ParseDate(call.text[DateOffsets(call.text)[1]]),
                      text |-> call.text]>>

\* a text with one date and surrounding whitespace was segmented
C26_Witness ==
    /\ call.fn = "extract_dates_and_split"
    /\ Len(DateOffsets(call.text)) = 1
    /\ Strip(call.text) # call.text

normalize(t) == Replace(Replace(LowerStr(Strip(t)), NL, <<>>), CR, <<>>)

\* C28: for every text t, compute_text_hash(t) = compute_text_hash(normalize(t)).
C28_HashOfNormalized ==
    call.fn = "compute_text_hash" => call.ret = compute_text_hash(normalize(call.text))

\* the words of a text: its maximal runs of non-whitespace characters, lower-cased
RECURSIVE Words(_, _, _)
Words(t, word, done) ==
    IF t = <<>> THEN (IF word = <<>> THEN done ELSE Append(done, word))
    ELSE IF Head(t) \in Whitespace
         THEN Words(Tail(t), <<>>, IF word = <<>> THEN done ELSE Append(done, word))
         ELSE Words(Tail(t), Append(word, LowerChar(Head(t))), done)

\* two texts differ at most in whitespace and letter case
SameContent(t, u) == Words(t, <<>>, <<>>) = Words(u, <<>>, <<>>)

\* C29: two texts that differ only in whitespace or letter case have the same
\* compute_text_hash, and two texts that differ in content have different ones.
C29_HashIffSameContent ==
    call.fn = "compute_text_hash" =>
        \A u \in TextInputs :
            SameContent(call.text, u) <=> (compute_text_hash(u) = call.ret)

\* C30: every stored row and every entry reported as created has at most 5 tags and at
\* most 3 insights, although the tagging model answers with more.
C30_TagsAndInsightsBounded ==
    /\ \A n \in 1..Len(db) : Len(db[n].tags) <= 5 /\ Len(db[n].core_insights) <= 3
    /\ \A p \in Procs : \A e \in 1..Len(CreatedEntries(proc[p])) :
         /\ Len(CreatedEntries(proc[p])[e].tags) <= 5
         /\ CreatedEntries(proc[p])[e].insights_count <= 3

\* the tagging model answered with 6 tags and 4 insights and the row stored holds the
\* first 5 and the first 3
C30_Witness ==
    /\ Len(TaggerAnswer.tags) > 5
    /\ Len(TaggerAnswer.core_insights) > 3
    /\ \E n \in 1..Len(db) : Len(db[n].tags) = 5 /\ Len(db[n].core_insights) = 3

(***************************************************************************)
(* POST /upload-images (main.py): the request is validated, the files are  *)
(* saved under uploads/, and the server process runs ingest_journal_images *)
(* on the saved files before it answers.  `call` holds the request, the    *)
(* files saved for it and the status of the response (0 until it answers). *)
(***************************************************************************)
MaxUpload == 100
AllowedTypes == {"image/jpeg", "image/jpg", "image/png", "image/gif", "image/webp"}
ContentTypes == {"image/jpeg", "text/plain", None}

\* an uploaded file: what it holds (as the image it would be when saved) and its
\* declared content type
UploadFiles == [content : (Images \ {Missing}) \cup {PageC}, content_type : ContentTypes]

\* a request: `count` files, of which the model spells out the first ones
UploadRequests ==
    {[count |-> Len(fs), files |-> fs] : fs \in UNION {[1..n -> UploadFiles] : n \in 1..MaxBatch}}
    \cup {[count |-> MaxUpload + 1, files |-> <<f>>] : f \in UploadFiles}

\* validation as it would be without the loop over the content types
validate_count_only(request) ==
    IF request.count > MaxUpload THEN "Maximum 100 files allowed" ELSE "ok"

\* lines 283-291: the detail of the HTTPException(400), or "ok"
validate(request) ==
    IF request.count > MaxUpload THEN "Maximum 100 files allowed"
    ELSE IF \E i \in 1..Len(request.files) :
              request.files[i].content_type = None
              \/ request.files[i].content_type \notin AllowedTypes
         THEN "Invalid file type"
         ELSE "ok"

\* the request arrives: it is rejected, or its files are saved and the run starts
Upload ==
    \E request \in UploadRequests :
        /\ proc["server"].pc \in {"idle", "done", "crashed"}
        /\ IF call.fn = "none" THEN TRUE ELSE call.answered
        /\ runs < MaxRuns
        /\ runs' = runs + 1
        /\ IF validate(request) # "ok"
           THEN /\ call' = [fn |-> "upload_images", request |-> request, answered |-> TRUE,
                            status |-> 400, detail |-> validate(request), saved_files |-> <<>>]
                /\ proc' = proc
           ELSE LET saved_files == [i \in 1..Len(request.files) |-> request.files[i].content]
                IN /\ call' = [fn |-> "upload_images", request |-> request,
                               answered |-> FALSE, status |-> 0, detail |-> None,
                               saved_files |-> saved_files]
                   /\ proc' = [proc EXCEPT !["server"] =
                                 [Idle EXCEPT !.pc = "image", !.queue = saved_files,
                                              !.prior = ingested]]
        /\ UNCHANGED <<idxvars, filevars, db, mem, ingested>>

\* ingest_journal_images returned or raised: 200 with the summary, or the saved files
\* are removed and the answer is 500
Respond ==
    /\ call.fn = "upload_images"
    /\ ~call.answered
    /\ proc["server"].pc \in {"done", "crashed"}
    /\ call' = IF proc["server"].pc = "done"
               THEN [call EXCEPT !.answered = TRUE, !.status = 200]
               ELSE [call EXCEPT !.answered = TRUE, !.status = 500, !.detail = "Processing failed",
                                 !.saved_files = <<>>]
    /\ UNCHANGED <<idxvars, filevars, ingvars>>

UploadNext ==
    \/ Upload
    \/ ImageStep("server") \/ BlockStep("server") \/ CommitStep("server")
    \/ IndexStep("server")
    \/ Respond

SpecUpload == Init /\ [][UploadNext]_vars

\* the request holds more than 100 files or a file whose content type is not allowed
FailsValidation(request) ==
    \/ request.count > 100
    \/ \E i \in 1..Len(request.files) : request.files[i].content_type \notin AllowedTypes

\* C31: an upload request that fails validation is answered with status 400 and has
\* no effect: no file is saved, no run starts, storage and index stay as they were.
C31_RejectedStep ==
    (call' # call /\ call'.fn = "upload_images"
       /\ (IF call.fn = "none" THEN TRUE ELSE call.answered)
       /\ FailsValidation(call'.request)) =>
        /\ call'.status = 400
        /\ call'.saved_files = <<>>
        /\ UNCHANGED <<db, mem, index_file, metadata_file, proc, ingested>>

C31_InvalidUploadRejected == [][C31_RejectedStep]_vars

\* a request with a text file, and one with 101 files, were rejected after an earlier
\* upload had stored a record
C31_Witness ==
    /\ call.fn = "upload_images"
    /\ call.status = 400
    /\ FailsValidation(call.request)
    /\ db # <<>>
    /\ index_file # NoFile
    /\ proc["server"].pc = "done"

\* C32: remove_entry makes no call of embed, whichever entry it removes and however
\* many entries survive the removal.
C32_RemoveNeverEmbeds ==
    \A id \in Ids, type \in Types : remove_embed_calls(Self, id, type) = <<>>

\* a removal that rebuilds the index and leaves an entry behind
C32_Witness ==
    \E id \in Ids, type \in Types :
        /\ HasKey(metadata, id, type)
        /\ remove_entry(Self, id, type, "ok").metadata # <<>>

\* the ids of the rows of journal_entries
RowIds(rows) == {rows[n].id : n \in 1..Len(rows)}

\* C33: a block waits for its commit only after its duplicate check found nothing and
\* the tagging and embedding calls were made; it waits for its index insert only after
\* its row was committed, and no index entry carries its id before that; every index
\* entry carries the id of a stored row.
C33_CommitBeforeIndex ==
    LET st == proc["server"]
    IN /\ st.pc = "commit" =>
            /\ {"tag", "embed"} \subseteq st.invoked
            /\ st.journal_entry.transcript_hash
                 = compute_text_hash(st.date_blocks[st.i].text)
            /\ check_duplicate_text(st.journal_entry.transcript_hash, db) = NoRow
       /\ st.pc = "index" =>
            /\ {"tag", "embed"} \subseteq st.invoked
            /\ st.journal_entry.id \in RowIds(db)
            /\ \A n \in 1..Len(mem["server"].metadata) :
                 mem["server"].metadata[n].id # st.journal_entry.id
       /\ \A n \in 1..Len(mem["server"].metadata) :
            mem["server"].metadata[n].id \in RowIds(db)
       /\ metadata_file # NoFile =>
            \A n \in 1..Len(metadata_file) : metadata_file[n].id \in RowIds(db)

\* a block went through commit and index insert: its row and its index entry exist
C33_Witness ==
    /\ db # <<>>
    /\ \E n \in 1..Len(mem["server"].metadata) :
         mem["server"].metadata[n].id = db[Len(db)].id
    /\ {"tag", "embed"} \subseteq proc["server"].invoked

\* the rows of journal_entries whose transcript_hash is that of `text`
RowsOfText(text) == {n \in 1..Len(db) : db[n].transcript_hash = compute_text_hash(text)}

\* C34: the blocks of an image are handled one after the other in the order of the
\* segmentation: when block i is at its duplicate check, every earlier block has exactly
\* one row, so a block with the fingerprint of an earlier block of the same image is
\* found as a duplicate and never reaches the commit.
C34_SameImageDuplicateBlocks ==
    LET st == proc["server"]
    IN st.pc \in {"block", "commit", "index"} =>
         /\ st.i \in 1..Len(st.date_blocks)
         /\ \A j \in 1..(st.i - 1) :
              /\ Cardinality(RowsOfText(st.date_blocks[j].text)) = 1
              /\ compute_text_hash(st.date_blocks[j].text)
                   = compute_text_hash(st.date_blocks[st.i].text)
                 => /\ st.pc = "block"
                    /\ check_duplicate_text(compute_text_hash(st.date_blocks[st.i].text), db)
                         # NoRow

\* the second block of an image is at its duplicate check, it has the fingerprint of
\* the first block, and the first block was committed in this run
C34_Witness ==
    LET st == proc["server"]
    IN /\ st.pc = "block"
       /\ st.i = 2
       /\ st.date_blocks[1].text # st.date_blocks[2].text
       /\ compute_text_hash(st.date_blocks[1].text) = compute_text_hash(st.date_blocks[2].text)
       /\ Len(st.processed_entries) = 1

\* C35: whenever the server has answered its upload and no run is under way, every row
\* of journal_entries has an entry (id, "journal") in the similarity index.
C35_CommittedIsIndexed ==
    (call.fn = "upload_images" /\ call.answered) =>
        \A n \in 1..Len(db) :
            \E k \in 1..Len(mem["server"].metadata) :
                /\ mem["server"].metadata[k].id = db[n].id
                /\ mem["server"].metadata[k].type = "journal"

(***************************************************************************)
(* An index that only grows, large enough for a search to fetch fewer      *)
(* neighbours than the index holds.  Entries get the ids 1, 2, ... as the  *)
(* rows of a table do.                                                     *)
(***************************************************************************)
MaxSearchEntries == 4

GrowIndex ==
    \E text \in Texts, type \in Types :
        /\ Len(metadata) < MaxSearchEntries
        /\ Install(add_entry(Self, text, Len(metadata) + 1, type, NoMetadata, TRUE, "ok").self)
        /\ UNCHANGED <<history, removed, ingvars, call>>

SpecSearch == Init /\ [][GrowIndex]_vars

\* r holds k entries of type c, and no entry of type c outside r is more similar to q
\* than the last hit of r
KBestOfType(r, q, k, c) ==
    /\ Len(r) = k
    /\ \A i \in 1..Len(r) : r[i].metadata.type = c
    /\ \A i, j \in 1..Len(r) : i # j => r[i].id # r[j].id
    /\ \A p \in 1..Len(metadata) :
         (metadata[p].type = c /\ \A i \in 1..Len(r) : r[i].id # metadata[p].id)
            => ScoreGeq(r[Len(r)].score, InnerProduct(index[p], Normalize(embed(q))))

\* C36: when the index holds at least k entries of type c, search(q, k, c) returns
\* exactly k hits, the k entries of type c most similar to q, whatever entries of the
\* other type it holds (FAISSIndex.search and SimpleFAISSIndex.search).
C36_FilteredSearchFindsKBest ==
    \A q \in Queries, k \in 1..MaxK, c \in Types :
        CountType(metadata, c) >= k =>
            \A r \in search(Self, q, k, c, TRUE) \cup simple_search(Self, q, k, c, TRUE) :
                KBestOfType(r, q, k, c)

\* the characters of a text that are not whitespace, in order
NonWhitespace(t) == SelectSeq(t, LAMBDA c : c \notin Whitespace)

\* the texts of the blocks, one after the other
RECURSIVE JoinBlocks(_)
JoinBlocks(blocks) ==
    IF blocks = <<>> THEN <<>> ELSE Head(blocks).text \o JoinBlocks(Tail(blocks))

\* C37: extract_dates_and_split loses no text: the non-whitespace characters of the
\* blocks, taken in order, are the non-whitespace characters of the input, each once.
C37_SegmentLosesNoText ==
    call.fn = "extract_dates_and_split" =>
        NonWhitespace(JoinBlocks(call.ret)) = NonWhitespace(call.text)

\* C38: when the embedding provider fails, add_entry raises and changes nothing: no
\* vector, no metadata entry, and neither file is written, whatever the disk would do
\* (FAISSIndex.add_entry and SimpleFAISSIndex.add_entry).
C38_FailedEmbedLeavesIndex ==
    \A text \in Texts, id \in Ids, type \in Types, io \in SaveOutcomes :
        /\ \A extra \in ExtraMetadata :
             add_entry(Self, text, id, type, extra, FALSE, io) = [self |-> Self, raised |-> TRUE]
        /\ simple_add_entry(SimpleSelf("server"), text, id, type, FALSE, io)
             = [self |-> SimpleSelf("server"), raised |-> TRUE]

\* an add_entry has just raised on an index that holds a vector and has both files
C38_Witness ==
    /\ history.phase = "add_raised"
    /\ Len(index) >= 1
    /\ Len(metadata) >= 1
    /\ index_file # NoFile
    /\ metadata_file # NoFile

\* C39: with the command line and the server each holding its own copy of the index
\* over the same files, an entry that is in the persisted metadata stays in it through
\* every later save of either process.
C39_PersistedStep ==
    metadata_file # NoFile =>
        \A n \in 1..Len(metadata_file) :
            \E k \in 1..Len(metadata_file') : metadata_file'[k] = metadata_file[n]

C39_PersistedEntriesStay == [][C39_PersistedStep]_vars

====
